---- MODULE Spec2Model ----
(***************************************************************************)
(* SATARK fire sentinel: the polling cycle scan_sector, the land-use       *)
(* verifier verify_land_use and the upsert save_fire_event_smart of        *)
(* src/satark_cloud_v5.py, over the remote "fires" table.                  *)
(*                                                                         *)
(* Units.  Coordinates are integers in 1e-4 degree (23.5 deg = 235000),    *)
(* intensities are integers in MW, distances limits are in 1e-4 km, areas  *)
(* in m2.  The comparison  sqrt(dlat^2 + dlon^2) * 111 < limit_km  of the  *)
(* source is kept exact by comparing squares.                              *)
(***************************************************************************)
EXTENDS Integers, Sequences, FiniteSets, TLC

(* ------------------------------ bounds --------------------------------- *)
\* calls of save_fire_event_smart that reach the store's answer, over all cycles
MaxSaves == 2
\* rows of the merged frame of one cycle
MaxBatch == 2
\* elements in one answer of the land-use oracle
MaxElems == 2

(* ------------------------- program constants --------------------------- *)
KM_PER_DEG == 111
\* search_radius, in 1e-4 degree
SEARCH_RADIUS_GK2A == 250
SEARCH_RADIUS_FINE == 10
\* limit_km, in 1e-4 km
LIMIT_KM_GK2A == 25000
LIMIT_KM_FINE == 1000
PIXEL_SIZE_GK2A == 2000000
PIXEL_SIZE_FINE == 375000
\* the sub-pixel fraction 0.15, in percent
AREA_FRACTION_PCT == 15
\* verify_land_use: frp < 20.0 outside the home zone is not verified
VERIFY_MIN_FRP == 20
\* scan_sector: frp > 500 is kept only on FARM land
FRP_CEILING == 500
\* scan_sector: frp > 50.0 alerts in every zone
ALERT_FRP == 50

Pollers == {1, 2}

(* ------------------------------ inputs --------------------------------- *)
NasaSats == {"VIIRS_SNPP", "MODIS"}
GK2A_SOURCE == "GK2A (Real)"
Sources == NasaSats \cup {GK2A_SOURCE}

\* "GK2A" in source
IsGK2A(source) == source = GK2A_SOURCE

\* a row of the merged frame. confidence is the column of the feed itself
\* ("l", "n", "h" in the VIIRS files); conf_score is what scan_sector and
\* get_gk2a_fires set
Row(p, f, s) ==
    [latitude |-> p.lat, longitude |-> p.lon, frp |-> f, source |-> s,
     confidence |-> IF IsGK2A(s) THEN "" ELSE "n",
     conf_score |-> IF IsGK2A(s) THEN "EagleEye" ELSE "100%"]
\* the same reading, flagged low-confidence by the feed
LowConfidence(row) == [row EXCEPT !.confidence = "l"]

\* A: in the home zone; B: 0.0555 km north of A; C: 1.998 km north of A (on
\* the three-decimal grid of GK2A); D: in the PUNJAB_HARYANA box; E: outside
\* every zone box
PointA == [lat |-> 235000, lon |-> 879000]
PointB == [lat |-> 235005, lon |-> 879000]
PointC == [lat |-> 235180, lon |-> 879000]
PointD == [lat |-> 300000, lon |-> 750000]
PointE == [lat |-> 200000, lon |-> 750000]
\* F: 0.0008 degrees north and east of A, 0.1256 km from it
PointF == [lat |-> 235008, lon |-> 879008]

\* a missing or non-numeric frp cell of a feed reads as NaN
NaN == -1
\* float('inf'): above every reading
Inf == 1000000
\* a cell pandas kept as text: comparing it with a number raises TypeError
Unparsable == -2

\* float comparisons: every comparison with NaN is false
FloatLt(a, b) == a # NaN /\ b # NaN /\ a < b
FloatGt(a, b) == a # NaN /\ b # NaN /\ a > b

\* What the feeds deliver during one run of the model: a fire seen again and
\* again by the fine and the coarse sensor around A; weak and unreadable
\* readings in and out of the home zone; strong readings in and out of it.
\* (get_gk2a_fires yields frp = (temp_k - 300) * 2 > 24 only.)
FeedNear == {Row(PointA, 5, "VIIRS_SNPP"), Row(PointA, 60, "VIIRS_SNPP"),
             Row(PointB, 60, "MODIS"), Row(PointC, 60, "VIIRS_SNPP"),
             Row(PointC, 60, GK2A_SOURCE)}
FeedWeak == {Row(PointE, 5, "VIIRS_SNPP"), Row(PointE, 20, "MODIS"),
             Row(PointE, NaN, "MODIS"), Row(PointA, 0, "MODIS")}
FeedStrong == {Row(PointD, 50, "VIIRS_SNPP"), Row(PointE, 60, GK2A_SOURCE),
               Row(PointE, 600, "MODIS"), Row(PointA, 600, "VIIRS_SNPP")}
Feeds == {FeedNear, FeedWeak, FeedStrong}

NoDetection == [latitude |-> 0, longitude |-> 0, frp |-> 0, source |-> "",
                confidence |-> "", conf_score |-> ""]

(* --------------------------- get_region_tag ---------------------------- *)
\* mutant: the DELHI_NCR box is tested before the PUNJAB_HARYANA box
get_region_tag_DelhiFirst(lat, lon) ==
    IF 215000 <= lat /\ lat <= 273000 /\ 858000 <= lon /\ lon <= 899000
        THEN "WEST_BENGAL"
    ELSE IF 280000 <= lat /\ lat <= 289000 /\ 768000 <= lon /\ lon <= 775000
        THEN "DELHI_NCR"
    ELSE IF 284000 <= lat /\ lat <= 325000 /\ 738000 <= lon /\ lon <= 778000
        THEN "PUNJAB_HARYANA"
    ELSE "INDIA_OTHER"
get_region_tag(lat, lon) ==
    IF 215000 <= lat /\ lat <= 273000 /\ 858000 <= lon /\ lon <= 899000
        THEN "WEST_BENGAL"
    ELSE IF 284000 <= lat /\ lat <= 325000 /\ 738000 <= lon /\ lon <= 778000
        THEN "PUNJAB_HARYANA"
    ELSE IF 280000 <= lat /\ lat <= 289000 /\ 768000 <= lon /\ lon <= 775000
        THEN "DELHI_NCR"
    ELSE "INDIA_OTHER"

(* --------------------------- verify_land_use --------------------------- *)
QUOTA_SAVED == "UNVERIFIED (Quota Saved)"

\* one element of the oracle's "elements" list
NoTags == [has_tags |-> FALSE, industrial |-> FALSE, natural |-> "", landuse |-> ""]
Tagged(industrial, natural, landuse) ==
    [has_tags |-> TRUE, industrial |-> industrial, natural |-> natural,
     landuse |-> landuse]
Elements ==
    {NoTags,
     Tagged(TRUE, "", ""), Tagged(FALSE, "water", ""),
     Tagged(FALSE, "", "residential"), Tagged(FALSE, "", "farmland"),
     Tagged(FALSE, "", "quarry")}

SeqsUpTo(S, n) == UNION {[1..k -> S] : k \in 0..n}

\* what the GET to the oracle can come back with
OracleAnswers ==
    {[kind |-> k, elements |-> <<>>] : k \in {"exception", "not200", "malformed"}}
    \cup {[kind |-> "ok", elements |-> els] : els \in SeqsUpTo(Elements, MaxElems)}

\* mutants of the quota guard: the threshold mistyped; the zone test forgotten
QuotaSaved_LowThreshold(region, frp) == region # "WEST_BENGAL" /\ FloatLt(frp, 2)
QuotaSaved_AnyZone(region, frp) == FloatLt(frp, VERIFY_MIN_FRP)
\* the quota guard: the oracle is asked unless this holds
QuotaSaved(region, frp) == region # "WEST_BENGAL" /\ FloatLt(frp, VERIFY_MIN_FRP)

\* the loop over data['elements']: an early verdict, or the landuse values seen
RECURSIVE ScanElements(_, _, _)
ScanElements(els, i, tags_found) ==
    IF i > Len(els) THEN [verdict |-> "", tags_found |-> tags_found]
    ELSE LET el == els[i] IN
         IF ~el.has_tags THEN ScanElements(els, i + 1, tags_found)
         ELSE IF el.industrial THEN [verdict |-> "INDUSTRY", tags_found |-> tags_found]
         ELSE IF el.natural = "water" THEN [verdict |-> "WATER", tags_found |-> tags_found]
         ELSE ScanElements(els, i + 1,
                           IF el.landuse # "" THEN tags_found \cup {el.landuse}
                           ELSE tags_found)

ClassifyAnswer(answer) ==
    IF answer.kind # "ok" THEN "UNKNOWN"
    ELSE LET scan == ScanElements(answer.elements, 1, {}) IN
         IF scan.verdict # "" THEN scan.verdict
         ELSE IF scan.tags_found \cap {"industrial", "residential", "railway"} # {}
             THEN "INDUSTRY"
         ELSE IF scan.tags_found \cap {"farmland", "farm", "forest", "orchard"} # {}
             THEN "FARM"
         ELSE "UNKNOWN"

verify_land_use(region, frp, answer) ==
    IF QuotaSaved(region, frp) THEN QUOTA_SAVED ELSE ClassifyAnswer(answer)

\* mutant of the filters: water is let through
Filtered_NoWater(frp, land_type) ==
    \/ land_type \in {"INDUSTRY"}
    \/ FloatGt(frp, FRP_CEILING) /\ land_type # "FARM"
\* the two filters of scan_sector between verification and the upsert
Filtered(frp, land_type) ==
    \/ land_type \in {"INDUSTRY", "WATER"}
    \/ FloatGt(frp, FRP_CEILING) /\ land_type # "FARM"

(* ------------------------ save_fire_event_smart ------------------------ *)
search_radius(source) ==
    IF IsGK2A(source) THEN SEARCH_RADIUS_GK2A ELSE SEARCH_RADIUS_FINE
\* mutant: one limit for every sensor
limit_km_Uniform(source) == LIMIT_KM_FINE
limit_km(source) == IF IsGK2A(source) THEN LIMIT_KM_GK2A ELSE LIMIT_KM_FINE

\* the filter of check_url: lat=gte.lat_min & lat=lte.lat_max & lon=gte... & lon=lte...
InBox(row, lat, lon, source) ==
    /\ lat # NaN /\ lon # NaN
    /\ lat - search_radius(source) <= row.lat
    /\ row.lat <= lat + search_radius(source)
    /\ lon - search_radius(source) <= row.lon
    /\ row.lon <= lon + search_radius(source)

\* mutant: a row at the very same coordinate is not taken for a match
WithinLimit_NotSame(row, lat, lon, source) ==
    LET d2 == (row.lat - lat) * (row.lat - lat) + (row.lon - lon) * (row.lon - lon)
    IN  0 < d2 /\ d2 * (KM_PER_DEG * KM_PER_DEG) < limit_km(source) * limit_km(source)
\* mutant: the limit is chosen by the sensor that created the stored row
WithinLimit_StoredSensor(row, lat, lon, source) ==
    LET d2 == (row.lat - lat) * (row.lat - lat) + (row.lon - lon) * (row.lon - lon)
    IN  d2 * (KM_PER_DEG * KM_PER_DEG) < limit_km(row.source[1]) * limit_km(row.source[1])
\* dist_km < limit_km, with dist_km = sqrt(dlat^2 + dlon^2) * 111
WithinLimit(row, lat, lon, source) ==
    LET d2 == (row.lat - lat) * (row.lat - lat) + (row.lon - lon) * (row.lon - lon)
    IN  d2 * (KM_PER_DEG * KM_PER_DEG) < limit_km(source) * limit_km(source)

\* mutant: the loop has no break, the last row within the limit is kept
RECURSIVE FirstMatch_NoBreak(_, _, _, _, _)
FirstMatch_NoBreak(existing_fires, i, lat, lon, source) ==
    IF i > Len(existing_fires) THEN <<>>
    ELSE LET later == FirstMatch_NoBreak(existing_fires, i + 1, lat, lon, source) IN
         IF later # <<>> THEN later
         ELSE IF WithinLimit(existing_fires[i], lat, lon, source) THEN <<existing_fires[i]>>
         ELSE <<>>
\* the for loop with break: the first row of existing_fires within the limit,
\* as a sequence of zero or one row
RECURSIVE FirstMatch(_, _, _, _, _)
FirstMatch(existing_fires, i, lat, lon, source) ==
    IF i > Len(existing_fires) THEN <<>>
    ELSE IF WithinLimit(existing_fires[i], lat, lon, source) THEN <<existing_fires[i]>>
    ELSE FirstMatch(existing_fires, i + 1, lat, lon, source)

safe_float(val) == IF val \in {NaN, Inf, Unparsable} THEN 0 ELSE val

Max(a, b) == IF a >= b THEN a ELSE b

\* a source string "a, b, c" is the sequence of its tags; no tag of Sources is
\* a substring of another, so "source in old_src" is membership
SourceIn(source, old_src) == \E i \in 1..Len(old_src) : old_src[i] = source
\* mutant: the tag is appended without looking
new_source_AlwaysAppend(old_src, source) == Append(old_src, source)
new_source(old_src, source) ==
    IF SourceIn(source, old_src) THEN old_src ELSE Append(old_src, source)

\* mutant: the new reading overwrites the stored intensity
MergePayload_Overwrite(m, source, frp, now) ==
    [last_seen |-> now,
     frp_mw |-> safe_float(frp),
     source |-> new_source(m.source, source),
     alert_count |-> m.alert_count + 1]
\* mutant: the timestamp is left out and reads as the epoch
MergePayload_EpochLastSeen(m, source, frp, now) ==
    [last_seen |-> 0,
     frp_mw |-> Max(m.frp_mw, safe_float(frp)),
     source |-> new_source(m.source, source),
     alert_count |-> m.alert_count + 1]
\* the payload of the PATCH, applied to the row as the table holds it
MergePayload(m, source, frp, now) ==
    [last_seen |-> now,
     frp_mw |-> Max(m.frp_mw, safe_float(frp)),
     source |-> new_source(m.source, source),
     alert_count |-> m.alert_count + 1]
\* mutant: the patch also restarts the event
ApplyPatch_FirstSeen(row, payload) ==
    [row EXCEPT !.last_seen = payload.last_seen, !.frp_mw = payload.frp_mw,
                !.source = payload.source, !.alert_count = payload.alert_count,
                !.first_seen = payload.last_seen]
\* PATCH ...?id=eq.row_id: the columns of the payload replace the row's
ApplyPatch(row, payload) ==
    [row EXCEPT !.last_seen = payload.last_seen, !.frp_mw = payload.frp_mw,
                !.source = payload.source, !.alert_count = payload.alert_count]

pixel_size(source) == IF IsGK2A(source) THEN PIXEL_SIZE_GK2A ELSE PIXEL_SIZE_FINE
\* mutant: the sub-pixel fraction is forgotten
est_area_WholePixel(source, cluster_size) == pixel_size(source) * cluster_size
est_area(source, cluster_size) ==
    (pixel_size(source) * cluster_size * AREA_FRACTION_PCT) \div 100

\* the payload of the POST, with the id the table gives the row
InsertPayload(id, f, cluster_size, region, now) ==
    [id |-> id,
     lat |-> safe_float(f.latitude),
     lon |-> safe_float(f.longitude),
     first_seen |-> now,
     last_seen |-> now,
     source |-> <<f.source>>,
     alert_count |-> 1,
     location |-> region,
     frp_mw |-> safe_float(f.frp),
     confidence |-> f.conf_score,
     est_area_m2 |-> safe_float(est_area(f.source, cluster_size))]

\* mutant: a merge is reported as new
SaveReturns_MergeIsNew(matched, write_outcome) ==
    IF write_outcome = "exception" THEN FALSE ELSE TRUE
\* what save_fire_event_smart returns
SaveReturns(matched, write_outcome) ==
    IF write_outcome = "exception" THEN FALSE
    ELSE IF matched THEN FALSE
    ELSE TRUE

(* ------------------------------ alert gate ----------------------------- *)
\* mutant: the threshold itself alerts
AlertRule_Inclusive(region, frp) ==
    region = "WEST_BENGAL" \/ (frp # NaN /\ frp >= ALERT_FRP)
\* the rule of the alert block: region == "WEST_BENGAL" or frp > 50.0
AlertRule(region, frp) == region = "WEST_BENGAL" \/ FloatGt(frp, ALERT_FRP)

\* analyze_with_ai is asked only inside the alert block; its text either
\* holds the word FOREIGN or does not (the fallback "Confirmed Fire." does not)
AiTexts == {"FOREIGN", "Confirmed Fire."}
AiAsked(new, region, frp) == new /\ AlertRule(region, frp)

\* whether send_telegram_broadcast is called for the row
Handed(new, region, frp, text) ==
    AiAsked(new, region, frp) /\ text # "FOREIGN"

(* -------------------------------- state -------------------------------- *)
VARIABLES
    feed,           \* the readings the feeds can deliver
    fires,          \* the rows of the remote table, by id
    clock,          \* the last reading of datetime.utcnow()
    pc,             \* where each poller stands in scan_sector
    i_row,          \* rows of merged the loop of this cycle has taken
    cur,            \* the row f of the current iteration
    oracle_status,  \* how the oracle's GET for it ended ("none": not sent)
    land_type,      \* verify_land_use's result for it
    r_status,       \* how the GET of check_url ended
    candidates,     \* the ids of existing_fires, in the order the store returned them
    match,          \* save_fire_event_smart's match: <<>> or <<row as read>>
    now_time,       \* save_fire_event_smart's now_time
    w_status,       \* how the PATCH or POST ended
    is_new,         \* what save_fire_event_smart returned
    ai_msg,         \* analyze_with_ai's text, "" when it was not asked
    notified,       \* whether the row was handed to send_telegram_broadcast
    oracle_calls,   \* GETs sent to the land-use oracle in this cycle
    report,         \* the line scan_sector printed about the frame of its last run
    n_merges,       \* history: the PATCHes the store applied to each row, by id
    probe,          \* one call of a pure function: its arguments and its result
    audit           \* run_audit of monthly_audit.py: where it stands, what it holds

vars == <<feed, fires, clock, pc, i_row, cur, oracle_status, land_type, r_status,
          candidates, match, now_time, w_status, is_new, ai_msg, notified, oracle_calls,
          report, n_merges, probe, audit>>

\* the values of one iteration of the loop
locals == <<cur, oracle_status, land_type, r_status, candidates, match, now_time, w_status,
            is_new, ai_msg, notified>>

Region(p) == get_region_tag(cur[p].latitude, cur[p].longitude)

\* every order in which the store may return the rows of S
Orderings(S) ==
    {ex \in [1..Cardinality(S) -> S] :
        \A i, j \in 1..Cardinality(S) : i # j => ex[i] # ex[j]}

\* the rows the GET of check_url selects
BoxRows(lat, lon, source) ==
    {fires[i] : i \in {j \in 1..Len(fires) : InBox(fires[j], lat, lon, source)}}

\* the locals of poller p before anything is known about the row f
FreshLocals(p, f) ==
    /\ cur' = [cur EXCEPT ![p] = f]
    /\ oracle_status' = [oracle_status EXCEPT ![p] = ""]
    /\ land_type' = [land_type EXCEPT ![p] = ""]
    /\ r_status' = [r_status EXCEPT ![p] = ""]
    /\ candidates' = [candidates EXCEPT ![p] = <<>>]
    /\ match' = [match EXCEPT ![p] = <<>>]
    /\ now_time' = [now_time EXCEPT ![p] = 0]
    /\ w_status' = [w_status EXCEPT ![p] = ""]
    /\ is_new' = [is_new EXCEPT ![p] = FALSE]
    /\ ai_msg' = [ai_msg EXCEPT ![p] = ""]
    /\ notified' = [notified EXCEPT ![p] = FALSE]

\* the cycle-level lines of scan_sector
SECTOR_CLEAR == "Sector Clear."
PROCESSING == "Processing N Events..."

\* no pure function is being called
NoAnswer == [kind |-> "none", elements |-> <<>>]
NoCall == [op |-> "", lat |-> 0, lon |-> 0, frp |-> 0, answer |-> NoAnswer, out |-> ""]

\* run_audit is not running
NoAudit == [pc |-> "off", sender |-> FALSE, offset |-> 0, all_data |-> <<>>,
            last |-> "", success |-> "none", deletes |-> 0]

\* the pollers of `running` stand at `at`, the others are switched off
PollersAt(running, at) ==
    /\ pc = [p \in Pollers |-> IF p \in running THEN at ELSE "off"]
    /\ i_row = [p \in Pollers |-> 0]
    /\ cur = [p \in Pollers |-> NoDetection]
    /\ oracle_status = [p \in Pollers |-> ""]
    /\ land_type = [p \in Pollers |-> ""]
    /\ r_status = [p \in Pollers |-> ""]
    /\ candidates = [p \in Pollers |-> <<>>]
    /\ match = [p \in Pollers |-> <<>>]
    /\ now_time = [p \in Pollers |-> 0]
    /\ w_status = [p \in Pollers |-> ""]
    /\ is_new = [p \in Pollers |-> FALSE]
    /\ ai_msg = [p \in Pollers |-> ""]
    /\ notified = [p \in Pollers |-> FALSE]
    /\ oracle_calls = [p \in Pollers |-> 0]
    /\ report = [p \in Pollers |-> ""]

\* an empty table, and the pollers of `running` between two runs
InitWith(running) ==
    /\ feed \in Feeds
    /\ fires = <<>>
    /\ n_merges = <<>>
    /\ clock = 0
    /\ probe = NoCall
    /\ audit = NoAudit
    /\ PollersAt(running, "idle")

\* one scheduled run of the script at a time
Init == InitWith({1})

(* ------------------------------- actions ------------------------------- *)
\* scan_sector up to the loop: the feeds are fetched and concatenated
StartCycle(p) ==
    /\ pc[p] = "idle"
    /\ pc' = [pc EXCEPT ![p] = "row"]
    /\ report' = [report EXCEPT ![p] = ""]
    /\ UNCHANGED <<feed, fires, clock, i_row, locals, oracle_calls, n_merges, probe, audit>>

\* for _, f in merged.iterrows(): the next row of the frame
NextRow(p) ==
    /\ pc[p] = "row"
    /\ i_row[p] < MaxBatch
    /\ \E f \in feed : FreshLocals(p, f)
    /\ i_row' = [i_row EXCEPT ![p] = @ + 1]
    /\ pc' = [pc EXCEPT ![p] = "verify"]
    /\ UNCHANGED <<feed, fires, clock, oracle_calls, report, n_merges, probe, audit>>

\* the frame is exhausted (or was empty: "Sector Clear"): scan_sector returns
\* and its locals are gone
EndCycle(p) ==
    /\ pc[p] = "row"
    /\ pc' = [pc EXCEPT ![p] = "idle"]
    /\ i_row' = [i_row EXCEPT ![p] = 0]
    /\ FreshLocals(p, NoDetection)
    /\ oracle_calls' = [oracle_calls EXCEPT ![p] = 0]
    /\ \E line \in IF i_row[p] = 0 THEN {SECTOR_CLEAR, PROCESSING} ELSE {PROCESSING} :
            report' = [report EXCEPT ![p] = line]
    /\ UNCHANGED <<feed, fires, clock, n_merges, probe, audit>>

\* the comparisons of get_region_tag (line 344) raise on a text coordinate
RegionRaises(f) == f.latitude = Unparsable \/ f.longitude = Unparsable
\* frp < 20.0 (line 74) is evaluated outside the home zone only
QuotaRaises(region, frp) == region # "WEST_BENGAL" /\ frp = Unparsable
\* frp > 500 (line 348) is evaluated unless line 347 has continued
CeilingRaises(frp, land) == land \notin {"INDUSTRY", "WATER"} /\ frp = Unparsable

\* region, verify_land_use and the two "continue" filters. A TypeError of one
\* of the comparisons is caught nowhere: it ends scan_sector and the script.
Verify(p) ==
    /\ pc[p] = "verify"
    /\ IF RegionRaises(cur[p])
       THEN /\ pc' = [pc EXCEPT ![p] = "aborted"]
            /\ UNCHANGED <<oracle_status, land_type, oracle_calls>>
       ELSE
       LET region == Region(p)
           frp == cur[p].frp
           asked == ~QuotaRaises(region, frp) /\ ~QuotaSaved(region, frp)
       IN  /\ \E answer \in IF asked THEN OracleAnswers
                                     ELSE {[kind |-> "none", elements |-> <<>>]} :
                /\ oracle_status' = [oracle_status EXCEPT ![p] = answer.kind]
                /\ land_type' = [land_type EXCEPT ![p] =
                        IF QuotaRaises(region, frp) THEN ""
                        ELSE verify_land_use(region, frp, answer)]
                /\ pc' = [pc EXCEPT ![p] =
                        IF QuotaRaises(region, frp) THEN "aborted"
                        ELSE IF CeilingRaises(frp, land_type'[p]) THEN "aborted"
                        ELSE IF Filtered(frp, land_type'[p]) THEN "row"
                        ELSE "lookup"]
           /\ oracle_calls' = [oracle_calls EXCEPT ![p] = IF asked THEN @ + 1 ELSE @]
    /\ UNCHANGED <<feed, fires, clock, i_row, cur, r_status, candidates, match, now_time,
                   w_status, is_new, ai_msg, notified, report, n_merges, probe, audit>>

\* save_fire_event_smart up to now_time: the GET and the search for a match.
\* A status other than 200 reads as no rows; an exception returns False, and
\* the alert block is not entered.
Lookup(p) ==
    /\ pc[p] = "lookup"
    /\ clock < MaxSaves
    /\ LET lat == cur[p].latitude
           lon == cur[p].longitude
           source == cur[p].source
       IN  \E outcome \in {"200", "not200", "exception"} :
            /\ r_status' = [r_status EXCEPT ![p] = outcome]
            /\ IF outcome = "exception"
               THEN /\ pc' = [pc EXCEPT ![p] = "row"]
                    /\ UNCHANGED <<candidates, match, now_time, clock>>
               ELSE /\ \E existing_fires \in
                           IF outcome = "200" THEN Orderings(BoxRows(lat, lon, source))
                           ELSE {<<>>} :
                           /\ candidates' = [candidates EXCEPT ![p] =
                                   [k \in 1..Len(existing_fires) |-> existing_fires[k].id]]
                           /\ match' = [match EXCEPT
                                   ![p] = FirstMatch(existing_fires, 1, lat, lon, source)]
                    /\ clock' = clock + 1
                    /\ now_time' = [now_time EXCEPT ![p] = clock']
                    /\ pc' = [pc EXCEPT ![p] = "write"]
    /\ UNCHANGED <<feed, fires, i_row, cur, oracle_status, land_type, w_status,
                   is_new, ai_msg, notified, oracle_calls, report, n_merges, probe, audit>>

\* mutant: the store refuses a second row at a coordinate it already holds
FiresAfterWrite_Unique(p, write_outcome) ==
    IF write_outcome # "ok" THEN fires
    ELSE IF match[p] # <<>>
    THEN LET m == match[p][1]
             payload == MergePayload(m, cur[p].source, cur[p].frp, now_time[p])
         IN  [i \in 1..Len(fires) |->
                 IF fires[i].id = m.id THEN ApplyPatch(fires[i], payload) ELSE fires[i]]
    ELSE IF \E i \in 1..Len(fires) :
                fires[i].lat = cur[p].latitude /\ fires[i].lon = cur[p].longitude
    THEN fires
    ELSE Append(fires, InsertPayload(Len(fires) + 1, cur[p], 1, Region(p), now_time[p]))
\* the table after the PATCH or POST of poller p came back with write_outcome
FiresAfterWrite(p, write_outcome) ==
    IF write_outcome # "ok" THEN fires
    ELSE IF match[p] # <<>>
    THEN LET m == match[p][1]
             payload == MergePayload(m, cur[p].source, cur[p].frp, now_time[p])
         IN  [i \in 1..Len(fires) |->
                 IF fires[i].id = m.id THEN ApplyPatch(fires[i], payload) ELSE fires[i]]
    ELSE Append(fires, InsertPayload(Len(fires) + 1, cur[p], 1, Region(p), now_time[p]))

\* history of the PATCHes applied: one more for the patched row, none yet for
\* an inserted one
MergesAfterWrite(p, write_outcome) ==
    IF write_outcome # "ok" THEN n_merges
    ELSE IF match[p] # <<>>
    THEN [i \in 1..Len(fires) |->
             IF fires[i].id = match[p][1].id THEN n_merges[i] + 1 ELSE n_merges[i]]
    ELSE Append(n_merges, 0)

\* the rest of save_fire_event_smart (PATCH on a match, POST otherwise) and the
\* alert block of scan_sector. The store may apply the write ("ok"), refuse it
\* with an error status ("rejected") or the request may raise ("exception").
Write(p) ==
    /\ pc[p] = "write"
    /\ \E write_outcome \in {"ok", "rejected", "exception"} :
        LET new == SaveReturns(match[p] # <<>>, write_outcome)
            region == Region(p)
            frp == cur[p].frp
        IN  /\ w_status' = [w_status EXCEPT ![p] = write_outcome]
            /\ fires' = FiresAfterWrite(p, write_outcome)
            /\ n_merges' = MergesAfterWrite(p, write_outcome)
            /\ is_new' = [is_new EXCEPT ![p] = new]
            /\ \E text \in IF AiAsked(new, region, frp) THEN AiTexts ELSE {""} :
                /\ ai_msg' = [ai_msg EXCEPT ![p] = text]
                /\ notified' = [notified EXCEPT ![p] = Handed(new, region, frp, text)]
    /\ pc' = [pc EXCEPT ![p] = "row"]
    /\ UNCHANGED <<feed, clock, i_row, cur, oracle_status, land_type, r_status,
                   candidates, match,
                   now_time, oracle_calls, report, probe,
                   audit>>

Next ==
    \E p \in Pollers :
        \/ StartCycle(p)
        \/ NextRow(p)
        \/ EndCycle(p)
        \/ Verify(p)
        \/ Lookup(p)
        \/ Write(p)

Spec == Init /\ [][Next]_vars

(* ------------------------ one run of the script ----------------------- *)
\* two readings of one sensor, 0.142 km apart, in the same 0.01-degree cell
CellP == [lat |-> 220000, lon |-> 880000]
CellQ == [lat |-> 220010, lon |-> 880008]
FeedCell == {Row(CellP, 30, "VIIRS_SNPP"), Row(CellQ, 40, "VIIRS_SNPP")}

\* scan_sector has fetched the feeds and stands before the loop
InitOneRun ==
    /\ feed = FeedCell
    /\ fires = <<>>
    /\ n_merges = <<>>
    /\ clock = 0
    /\ probe = NoCall
    /\ audit = NoAudit
    /\ PollersAt({1}, "row")

\* the script calls scan_sector once and exits
NextOneRun ==
    \E p \in Pollers :
        \/ NextRow(p)
        \/ EndCycle(p)
        \/ Verify(p)
        \/ Lookup(p)
        \/ Write(p)

SpecOneRun == InitOneRun /\ [][NextOneRun]_vars

(* ------------------- a run over unclean readings ----------------------- *)
\* a reading without latitude, one with an infinite intensity, one whose
\* intensity column came as text, and one the feed flags as low-confidence
FeedDirty == {Row([lat |-> NaN, lon |-> 879000], 60, "MODIS"),
              Row(PointE, Inf, "MODIS"),
              Row(PointA, Unparsable, "VIIRS_SNPP"),
              LowConfidence(Row(PointD, 60, "VIIRS_SNPP"))}

InitDirty ==
    /\ feed = FeedDirty
    /\ fires = <<>>
    /\ n_merges = <<>>
    /\ clock = 0
    /\ probe = NoCall
    /\ audit = NoAudit
    /\ PollersAt({1}, "row")

SpecDirty == InitDirty /\ [][NextOneRun]_vars

(* ------------------------- two runs at once ---------------------------- *)
\* weak fires at E and at D, outside the home zone (the oracle is not asked
\* about them)
FeedRace == {Row(PointE, 5, "VIIRS_SNPP"), Row(PointD, 5, "MODIS")}

\* the table is empty, or holds the event of that fire recorded at instant 0
StoredBefore == InsertPayload(1, Row(PointE, 5, "VIIRS_SNPP"), 1, "INDIA_OTHER", 0)

\* two schedules have started the script independently of each other; both
\* runs have fetched the feeds
InitRace ==
    /\ feed = FeedRace
    /\ fires \in {<<>>, <<StoredBefore>>}
    /\ n_merges = [i \in 1..Len(fires) |-> 0]
    /\ clock = 0
    /\ probe = NoCall
    /\ audit = NoAudit
    /\ PollersAt({1, 2}, "row")

SpecRace == InitRace /\ [][NextOneRun]_vars

(* ------------------ a run over a table of two events ------------------- *)
\* two events 2 km apart, one recorded by the coarse sensor, one by a fine one
StoredA == InsertPayload(1, Row(PointA, 60, GK2A_SOURCE), 1, "WEST_BENGAL", 0)
StoredC == InsertPayload(2, Row(PointC, 60, "MODIS"), 1, "WEST_BENGAL", 0)

\* the coarse sensor sees the fire at C; fine sensors see a fire at B, next to
\* A, and one at F, in the candidate box of A and beyond the fine limit
FeedTwoEvents ==
    {Row(PointC, 60, GK2A_SOURCE), Row(PointB, 60, "MODIS"),
     Row(PointF, 60, "VIIRS_SNPP")}

InitTwoEvents ==
    /\ feed = FeedTwoEvents
    /\ fires = <<StoredA, StoredC>>
    /\ n_merges = <<0, 0>>
    /\ clock = 0
    /\ probe = NoCall
    /\ audit = NoAudit
    /\ PollersAt({1}, "row")

SpecTwoEvents == InitTwoEvents /\ [][NextOneRun]_vars

(* ------------------------- the monthly audit --------------------------- *)
\* requests fetch_monthly_data may send in one run
MaxPages == 3

batch_size == 1000

\* what all_data.extend(data) appends: the rows of a list, or, data being the
\* JSON object of an error answer, its keys
RowItem(row) == [kind |-> "row", id |-> row.id, key |-> ""]
KeyItem(k) == [kind |-> "key", id |-> 0, key |-> k]

Min(a, b) == IF a <= b THEN a ELSE b

\* GET ...&offset=offset&limit=batch_size, answered with rows
Page(offset) ==
    [k \in 1..(Min(Len(fires), offset + batch_size) - Min(Len(fires), offset)) |->
        RowItem(fires[offset + k])]
\* the body of an error answer of the store
ErrorBody == <<KeyItem("code"), KeyItem("details"), KeyItem("hint"), KeyItem("message")>>

\* all_data.extend(data)
ExtendWith(all_data, kind, data) == all_data \o data

\* if not data: break
LoopGoesOn(kind, data) == data # <<>>

\* mutant: the wipe does not look at the email
WipeAllowed_Always(success) == TRUE
\* if success: ... wipe_database()
WipeAllowed(success) == success = "true"

\* send_email: False without a sender address or when SMTP raises
send_email(sender, smtp) == IF ~sender THEN "false"
                            ELSE IF smtp = "sent" THEN "true" ELSE "false"

\* the tables the audit may find at the end of a month
SecondStored == InsertPayload(2, Row(PointD, 5, "MODIS"), 1, "PUNJAB_HARYANA", 1)
AuditTables == {<<>>, <<StoredBefore>>, <<StoredBefore, SecondStored>>}

InitAudit ==
    /\ feed = {}
    /\ fires \in AuditTables
    /\ n_merges = [i \in 1..Len(fires) |-> 0]
    /\ clock = Len(fires)
    /\ probe = NoCall
    /\ \E sender \in BOOLEAN :
          audit = [NoAudit EXCEPT !.pc = "fetch", !.sender = sender]
    /\ PollersAt({}, "idle")

\* one turn of the while loop of fetch_monthly_data
AuditFetch ==
    /\ audit.pc = "fetch"
    /\ audit.offset < MaxPages * batch_size
    /\ \E kind \in {"list", "object", "exception"} :
        LET data == IF kind = "list" THEN Page(audit.offset)
                    ELSE IF kind = "object" THEN ErrorBody ELSE <<>>
        IN  audit' =
              IF kind # "exception" /\ LoopGoesOn(kind, data)
              THEN [audit EXCEPT !.all_data = ExtendWith(@, kind, data),
                                 !.offset = @ + batch_size, !.last = kind]
              ELSE [audit EXCEPT !.pc = "report", !.last = kind]
    /\ UNCHANGED <<feed, fires, clock, pc, i_row, locals, oracle_calls, report,
                   n_merges, probe>>

\* run_audit from df.empty to the report file: nothing to report, or the
\* files are written, or one of the steps raises (it does when the frame
\* holds no row: there is no frp_mw column)
AuditReport ==
    /\ audit.pc = "report"
    /\ \E step \in {"ok", "raises"} :
        audit' = [audit EXCEPT !.pc =
            IF audit.all_data = <<>> THEN "done"
            ELSE IF step = "raises"
                    \/ \A k \in 1..Len(audit.all_data) : audit.all_data[k].kind # "row"
                THEN "aborted"
            ELSE "email"]
    /\ UNCHANGED <<feed, fires, clock, pc, i_row, locals, oracle_calls, report,
                   n_merges, probe>>

\* success = send_email(...) and the branch on it
AuditEmail ==
    /\ audit.pc = "email"
    /\ \E smtp \in {"sent", "raises"} :
        LET success == send_email(audit.sender, smtp) IN
        audit' = [audit EXCEPT !.success = success,
                               !.pc = IF WipeAllowed(success) THEN "wipe" ELSE "done"]
    /\ UNCHANGED <<feed, fires, clock, pc, i_row, locals, oracle_calls, report,
                   n_merges, probe>>

\* wipe_database: DELETE ...fires?id=gt.0
AuditWipe ==
    /\ audit.pc = "wipe"
    /\ audit' = [audit EXCEPT !.deletes = @ + 1, !.pc = "done"]
    /\ \E answer \in {"ok", "rejected", "exception"} :
        /\ fires' = IF answer = "ok" THEN <<>> ELSE fires
        /\ n_merges' = IF answer = "ok" THEN <<>> ELSE n_merges
    /\ UNCHANGED <<feed, clock, pc, i_row, locals, oracle_calls, report, probe>>

NextAudit == AuditFetch \/ AuditReport \/ AuditEmail \/ AuditWipe

SpecAudit == InitAudit /\ [][NextAudit]_vars

(* ------------------- calls of the pure functions ----------------------- *)
\* the elements an answer of the oracle is drawn from here: every landuse
\* value verify_land_use tests for, two it does not, and the other two tags
LanduseValues == {"industrial", "residential", "railway", "quarry", "mine",
                  "farmland", "farm", "forest", "orchard", "meadow"}
CallElements ==
    {NoTags, Tagged(TRUE, "", ""), Tagged(FALSE, "water", "")}
    \cup {Tagged(FALSE, "", l) : l \in LanduseValues}

\* verify_land_use(lat, lon, region, frp) as scan_sector calls it, with the
\* oracle's answer
VerifyCalls ==
    {[op |-> "verify_land_use", lat |-> pt.lat, lon |-> pt.lon, frp |-> f,
      answer |-> [kind |-> "ok", elements |-> els], out |-> ""] :
        pt \in {PointA, PointE}, f \in {5, 60},
        els \in SeqsUpTo(CallElements, MaxElems)}

\* get_region_tag(lat, lon) on and next to every edge of the three boxes
EdgeLats == {214999, 215000, 235000, 273000, 273001, 279999, 280000, 283999,
             284000, 286000, 289000, 289001, 325000, 325001}
EdgeLons == {737999, 738000, 750000, 767999, 768000, 770000, 775000, 775001,
             778000, 778001, 857999, 858000, 879000, 899000, 899001}
RegionCalls ==
    {[op |-> "get_region_tag", lat |-> la, lon |-> lo, frp |-> 0,
      answer |-> NoAnswer, out |-> ""] : la \in EdgeLats \cup {NaN}, lo \in EdgeLons}

\* no poller runs; one call is about to be made
InitCalls ==
    /\ feed = {}
    /\ fires = <<>>
    /\ n_merges = <<>>
    /\ clock = 0
    /\ probe \in VerifyCalls \cup RegionCalls
    /\ audit = NoAudit
    /\ PollersAt({}, "idle")

CallRegion ==
    /\ probe.op = "get_region_tag"
    /\ probe.out = ""
    /\ probe' = [probe EXCEPT !.out = get_region_tag(probe.lat, probe.lon)]
    /\ UNCHANGED <<feed, fires, clock, pc, i_row, locals, oracle_calls, report,
                   n_merges, audit>>

CallVerify ==
    /\ probe.op = "verify_land_use"
    /\ probe.out = ""
    /\ probe' = [probe EXCEPT !.out =
                    verify_land_use(get_region_tag(probe.lat, probe.lon),
                                    probe.frp, probe.answer)]
    /\ UNCHANGED <<feed, fires, clock, pc, i_row, locals, oracle_calls, report,
                   n_merges, audit>>

NextCalls == CallRegion \/ CallVerify

SpecCalls == InitCalls /\ [][NextCalls]_vars

(* ------------------------------- claims -------------------------------- *)
VerifyStep(p) == pc[p] = "verify" /\ pc'[p] # "verify"
WriteStep(p) == pc[p] = "write" /\ pc'[p] = "row"

\* the row f got as far as save_fire_event_smart
Reached(p) == pc[p] \in {"lookup", "write"} \/ r_status[p] # ""

\* the row of the table is within the candidate box and the distance limit of
\* the reading f
InRange(row, f) ==
    /\ InBox(row, f.latitude, f.longitude, f.source)
    /\ WithinLimit(row, f.latitude, f.longitude, f.source)

\* the row is what the save just before the one reading the clock at `now`
\* inserted for the reading f
JustInsertedFor(row, f, now) ==
    /\ row.lat = f.latitude /\ row.lon = f.longitude
    /\ row.source = <<f.source>>
    /\ row.frp_mw = (IF f.frp = NaN THEN 0 ELSE f.frp)
    /\ row.alert_count = 1
    /\ row.first_seen = now - 1 /\ row.last_seen = now - 1

\* C1 (idempotence of the upsert): when the reading that was inserted by the
\* previous save, into a table with no other row in range, is saved again and
\* the store answers the lookup, the second save inserts nothing and is not
\* reported as new; the table holds exactly one row at that coordinate, and
\* once the patch is applied its alert_count is 2.
C1_Idempotent ==
    [][\A p \in Pollers :
        (/\ WriteStep(p)
         /\ r_status[p] = "200"
         /\ \E i \in 1..Len(fires) :
              /\ JustInsertedFor(fires[i], cur[p], now_time[p])
              /\ \A j \in 1..Len(fires) : j # i => ~InRange(fires[j], cur[p]))
        => /\ Len(fires') = Len(fires)
           /\ ~is_new'[p]
           /\ Cardinality({i \in 1..Len(fires') :
                            /\ fires'[i].lat = cur[p].latitude
                            /\ fires'[i].lon = cur[p].longitude}) = 1
           /\ w_status'[p] = "ok" =>
                \A i \in 1..Len(fires') :
                    (fires'[i].lat = cur[p].latitude /\ fires'[i].lon = cur[p].longitude)
                    => fires'[i].alert_count = 2]_vars

\* the same reading was saved twice in a row and the table holds one row for
\* it, counted twice
C1_Witness ==
    \E p \in Pollers :
        /\ pc[p] = "row" /\ r_status[p] = "200" /\ w_status[p] = "ok"
        /\ match[p] # <<>>
        /\ JustInsertedFor(match[p][1], cur[p], now_time[p])
        /\ Len(fires) = 1
        /\ fires[1].alert_count = 2

\* C2 (merge suppresses alerts): for a reading that save_fire_event_smart
\* resolved as a merge, in whatever cycle, the save is not reported as new, the
\* alert block is not entered (the analyst is not asked) and nothing is handed
\* to the notifier.
C2_MergeSuppressesAlerts ==
    \A p \in Pollers :
        match[p] # <<>> => ~is_new[p] /\ ai_msg[p] = "" /\ ~notified[p]

\* a merge of a reading that the alert rule would have passed
C2_Witness ==
    \E p \in Pollers :
        /\ match[p] # <<>> /\ w_status[p] = "ok"
        /\ Region(p) = "WEST_BENGAL"
        /\ fires[match[p][1].id].alert_count = 2
        /\ ~notified[p]

\* C3 (monotonic intensity): no step lowers the frp_mw of a stored row, and a
\* merge stores the larger of the stored frp_mw and the sanitized reading.
C3_MonotonicFrp ==
    [][/\ \A i \in 1..Len(fires) :
            i <= Len(fires') /\ fires'[i].frp_mw >= fires[i].frp_mw
       /\ \A p \in Pollers :
            (WriteStep(p) /\ match[p] # <<>> /\ w_status'[p] = "ok")
            => LET id == match[p][1].id
                   clean == IF cur[p].frp = NaN THEN 0 ELSE cur[p].frp
               IN  fires'[id].frp_mw =
                       (IF fires[id].frp_mw >= clean THEN fires[id].frp_mw ELSE clean)]_vars

\* a weaker reading was merged into a row and the row kept its intensity
C3_Witness ==
    \E p \in Pollers :
        /\ pc[p] = "row" /\ w_status[p] = "ok" /\ match[p] # <<>>
        /\ cur[p].frp # NaN /\ cur[p].frp < match[p][1].frp_mw
        /\ fires[match[p][1].id].frp_mw = match[p][1].frp_mw
        /\ fires[match[p][1].id].alert_count = 2

\* the row and the reading are about 2 km apart (between 1.9 and 2.1 km)
TwoKmApart(row, f) ==
    LET dlat == row.lat - f.latitude
        dlon == row.lon - f.longitude
        d2 == dlat * dlat + dlon * dlon
    IN  /\ -250 <= dlat /\ dlat <= 250 /\ -250 <= dlon /\ dlon <= 250
        /\ 19000 * 19000 <= d2 * 111 * 111
        /\ d2 * 111 * 111 <= 21000 * 21000

\* C4 (radius asymmetry): with one row in the table, created by a fine
\* sensor, and the store answering the lookup, a GK2A reading 2 km from it is
\* matched with it and merged into it (no row is added), and a fine reading
\* 2 km from it is not matched and is inserted as a second row.
C4_RadiusAsymmetry ==
    [][\A p \in Pollers :
        (/\ WriteStep(p)
         /\ r_status[p] = "200"
         /\ Len(fires) = 1
         /\ fires[1].source[1] \in NasaSats
         /\ TwoKmApart(fires[1], cur[p]))
        => IF cur[p].source = GK2A_SOURCE
           THEN /\ match[p] = <<fires[1]>>
                /\ Len(fires') = 1
                /\ ~is_new'[p]
                /\ w_status'[p] = "ok" =>
                       /\ fires'[1].alert_count = fires[1].alert_count + 1
                       /\ \E k \in 1..Len(fires'[1].source) :
                              fires'[1].source[k] = GK2A_SOURCE
           ELSE /\ match[p] = <<>>
                /\ fires'[1] = fires[1]
                /\ w_status'[p] = "ok" =>
                       /\ Len(fires') = 2
                       /\ fires'[2].lat = cur[p].latitude
                       /\ fires'[2].lon = cur[p].longitude
                       /\ is_new'[p]]_vars

\* a GK2A reading was merged into the fine row 2 km away
C4_Witness ==
    \E p \in Pollers :
        /\ pc[p] = "row" /\ r_status[p] = "200" /\ w_status[p] = "ok"
        /\ cur[p].source = GK2A_SOURCE
        /\ Len(fires) = 1
        /\ fires[1].source = <<"VIIRS_SNPP", GK2A_SOURCE>>
        /\ TwoKmApart(fires[1], cur[p])
        /\ fires[1].alert_count = 2

\* C5 (fail-open verification), as claimed: whenever the oracle's GET raises,
\* answers another status than 200 or answers a malformed body, the land type
\* is UNKNOWN and the reading goes on to save_fire_event_smart.
C5_FailOpen ==
    \A p \in Pollers :
        oracle_status[p] \in {"exception", "not200", "malformed"}
        => land_type[p] = "UNKNOWN" /\ Reached(p)

\* C6 (quota gate): verifying a reading outside the home zone whose intensity
\* is below 20 MW sends no GET to the oracle (the cycle's count of oracle calls
\* does not move) and yields the sentinel "UNVERIFIED (Quota Saved)".
C6_QuotaGate ==
    [][\A p \in Pollers :
        (/\ VerifyStep(p)
         /\ Region(p) # "WEST_BENGAL"
         /\ cur[p].frp # NaN /\ cur[p].frp < 20)
        => /\ oracle_calls'[p] = oracle_calls[p]
           /\ oracle_status'[p] = "none"
           /\ land_type'[p] = "UNVERIFIED (Quota Saved)"]_vars

\* a cycle has taken all its rows, the last one under the quota gate, and
\* has not called the oracle once
C6_Witness ==
    \E p \in Pollers :
        /\ i_row[p] = MaxBatch /\ pc[p] \notin {"verify", "idle"}
        /\ oracle_calls[p] = 0
        /\ Region(p) # "WEST_BENGAL" /\ cur[p].frp # NaN /\ cur[p].frp < 20
        /\ land_type[p] = "UNVERIFIED (Quota Saved)"

\* C7 (tier 1): verifying a reading in the home zone sends exactly one GET to
\* the oracle, whatever the intensity, and never yields the quota sentinel.
C7_HomeZoneVerified ==
    [][\A p \in Pollers :
        (VerifyStep(p) /\ Region(p) = "WEST_BENGAL")
        => /\ oracle_calls'[p] = oracle_calls[p] + 1
           /\ oracle_status'[p] # "none"
           /\ land_type'[p] # "UNVERIFIED (Quota Saved)"]_vars

\* a home-zone reading of 0 MW was put to the oracle
C7_Witness ==
    \E p \in Pollers :
        /\ Region(p) = "WEST_BENGAL" /\ cur[p].frp = 0
        /\ oracle_status[p] = "ok" /\ land_type[p] = "FARM"
        /\ oracle_calls[p] >= 1

\* the zones the claim calls secondary high-risk zones; the code has one
\* intensity threshold, which stands for the secondary one as well
SecondaryZones == {"PUNJAB_HARYANA", "DELHI_NCR"}
SecondaryThreshold == ALERT_FRP
ClaimedGateRule(region, frp) ==
    \/ region = "WEST_BENGAL"
    \/ region \in SecondaryZones /\ frp # NaN /\ frp > SecondaryThreshold
    \/ frp # NaN /\ frp > 50

\* C8 (alert gate rule), as claimed: a newly inserted event is handed to the
\* notifier if and only if the rule on zone and intensity holds.
C8_GateRuleOnly ==
    \A p \in Pollers :
        (w_status[p] = "ok" /\ match[p] = <<>> /\ is_new[p])
        => (notified[p] <=> ClaimedGateRule(Region(p), cur[p].frp))

\* C8, amended: a reading reported as new is handed to the notifier if and
\* only if its zone is the home zone or its intensity exceeds 50 MW, and the
\* analyst's text does not hold the word FOREIGN; a reading not reported as
\* new is never handed over.
C8_GateRuleAndVeto ==
    \A p \in Pollers :
        /\ (w_status[p] # "" /\ is_new[p])
            => (notified[p] <=>
                   /\ Region(p) = "WEST_BENGAL" \/ (cur[p].frp # NaN /\ cur[p].frp > 50)
                   /\ ai_msg[p] # "FOREIGN")
        /\ ~is_new[p] => ~notified[p]

\* a new event outside the home zone went to the notifier on intensity alone
C8_Witness ==
    \E p \in Pollers :
        /\ w_status[p] = "ok" /\ is_new[p] /\ notified[p]
        /\ Region(p) = "INDIA_OTHER"
        /\ fires[Len(fires)].lat = cur[p].latitude

\* C9 (physical-plausibility filter), as claimed: a verified reading above
\* the ceiling of 500 MW goes on to save_fire_event_smart exactly when its
\* land type is FARM, FOREST or UNKNOWN.
C9_CeilingFilter ==
    \A p \in Pollers :
        (land_type[p] # "" /\ cur[p].frp # NaN /\ cur[p].frp > 500)
        => (Reached(p) <=> land_type[p] \in {"FARM", "FOREST", "UNKNOWN"})

\* C10 (noise rejection): a step that leaves a reading classified INDUSTRY or
\* WATER leaves the table as it was, sends no lookup and no write for the
\* reading, and hands nothing to the notifier.
C10_NoiseRejected ==
    [][\A p \in Pollers :
        land_type'[p] \in {"INDUSTRY", "WATER"}
        => /\ fires' = fires
           /\ pc'[p] \notin {"lookup", "write"}
           /\ r_status'[p] = "" /\ w_status'[p] = ""
           /\ ~is_new'[p] /\ ~notified'[p]]_vars

\* a reading over water was dropped in front of a table that holds a row
C10_Witness ==
    \E p \in Pollers :
        /\ land_type[p] = "WATER" /\ pc[p] = "row"
        /\ Len(fires) >= 1
        /\ r_status[p] = ""

\* ---- C11 ----
HasIndustrialKey(els) == \E i \in 1..Len(els) : els[i].has_tags /\ els[i].industrial
HasWater(els) == \E i \in 1..Len(els) : els[i].has_tags /\ els[i].natural = "water"
HasLanduse(els, values) ==
    \E i \in 1..Len(els) : els[i].has_tags /\ els[i].landuse \in values

\* the oracle was called, answered 200, and verify_land_use has returned
Classified == probe.op = "verify_land_use" /\ probe.out \notin {"", QUOTA_SAVED}

\* C11: when the oracle is called and answers 200, an industrial, residential,
\* railway, quarry or mine tag on any element gives INDUSTRY, a water-body tag
\* gives WATER (either of the two when both kinds are present), otherwise a
\* farmland, forest or orchard tag gives FARM or FOREST, and no matching tag
\* gives UNKNOWN.
C11_TagMapping ==
    Classified =>
        LET els == probe.answer.elements
            industry == \/ HasIndustrialKey(els)
                        \/ HasLanduse(els, {"industrial", "residential", "railway",
                                            "quarry", "mine"})
            water == HasWater(els)
            farm == HasLanduse(els, {"farmland", "farm", "forest", "orchard"})
        IN  /\ industry /\ ~water => probe.out = "INDUSTRY"
            /\ water /\ ~industry => probe.out = "WATER"
            /\ industry /\ water => probe.out \in {"INDUSTRY", "WATER"}
            /\ ~industry /\ ~water /\ farm => probe.out \in {"FARM", "FOREST"}
            /\ ~industry /\ ~water /\ ~farm => probe.out = "UNKNOWN"

\* ---- C12 ----
\* the loop has saved its first two rows, the two readings of the cell in
\* either order, and the store applied both writes
BothOfCellSaved(p) ==
    /\ pc[p] = "row" /\ i_row[p] = 2
    /\ w_status[p] = "ok" /\ now_time[p] = 2
    /\ Len(fires) >= 1 /\ fires[1].first_seen = 1
    /\ fires[1].lat # cur[p].latitude

\* C12: two readings of one cycle and one sensor in the same grid cell are
\* fused into one cluster of two members whose intensity is the sum of both:
\* on an empty store they leave one row, not two.
C12_OneCluster ==
    \A p \in Pollers :
        BothOfCellSaved(p) =>
            /\ Len(fires) = 1
            /\ fires[1].frp_mw = 30 + 40
            /\ fires[1].est_area_m2 = est_area("VIIRS_SNPP", 2)

\* ---- C13 ----
\* C13: nothing stands between the lookup and the insert: a save that found no
\* match at lookup time adds its row whatever the table holds by then, and
\* reports the event as new; two pollers that both looked before either wrote
\* leave two rows for the one fire.
C13_CheckThenAct ==
    [][\A p \in Pollers :
          WriteStep(p) /\ match[p] = <<>> /\ w_status'[p] = "ok"
              => /\ Len(fires') = Len(fires) + 1
                 /\ fires'[Len(fires')].lat = cur[p].latitude
                 /\ fires'[Len(fires')].lon = cur[p].longitude
                 /\ is_new'[p]]_vars

\* both pollers saw an empty table for the same reading, both inserted, both
\* report a new event
C13_Witness ==
    /\ Len(fires) = 2
    /\ fires[1].lat = fires[2].lat /\ fires[1].lon = fires[2].lon
    /\ fires[1].source = fires[2].source
    /\ fires[1].alert_count = 1 /\ fires[2].alert_count = 1
    /\ cur[1] = cur[2]
    /\ \A p \in Pollers :
          /\ pc[p] = "row" /\ r_status[p] = "200" /\ match[p] = <<>>
          /\ w_status[p] = "ok" /\ is_new[p]

\* ---- C14 ----
\* C14: in every reachable state of the table, interleaved pollers included,
\* the alert_count of each row is 1 plus the number of merges the store has
\* applied to it.
C14_AlertCountAccounting ==
    \A i \in 1..Len(fires) : fires[i].alert_count = 1 + n_merges[i]

\* ---- C15 ----
\* C15: with a clock that never goes back, every row of the table has
\* first_seen <= last_seen: an insert sets both to the same instant and a merge
\* moves last_seen only.
C15_FirstBeforeLast ==
    \A i \in 1..Len(fires) : fires[i].first_seen <= fires[i].last_seen

\* a row that was merged into at a later instant than its insert
C15_Witness ==
    \E i \in 1..Len(fires) :
        fires[i].alert_count > 1 /\ fires[i].first_seen < fires[i].last_seen

\* ---- C16 ----
NoDuplicateTag(src) == \A i, j \in 1..Len(src) : src[i] = src[j] => i = j
TagsOf(src) == {src[i] : i \in 1..Len(src)}

\* the PATCH of poller p was applied to the row at index i
MergeApplied(p, i) ==
    /\ WriteStep(p) /\ match[p] # <<>> /\ w_status'[p] = "ok"
    /\ i \in 1..Len(fires) /\ fires[i].id = match[p][1].id

\* C16: after any sequence of inserts and merges no source string holds a tag
\* twice; an applied merge leaves the row with the tags it had plus the tag of
\* the merged sensor, and leaves the string as it was when the tag was there.
C16_SourceUnion ==
    [][/\ \A i \in 1..Len(fires') : NoDuplicateTag(fires'[i].source)
       /\ \A p \in Pollers : \A i \in 1..Len(fires) :
            MergeApplied(p, i) =>
                /\ TagsOf(fires'[i].source) = TagsOf(fires[i].source) \cup {cur[p].source}
                /\ cur[p].source \in TagsOf(fires[i].source)
                        => fires'[i].source = fires[i].source]_vars

\* the same sensor was merged into its own row: the string holds its tag once
C16_Witness ==
    \E p \in Pollers :
        /\ pc[p] = "row" /\ w_status[p] = "ok" /\ match[p] # <<>>
        /\ \E i \in 1..Len(fires) :
            /\ fires[i].id = match[p][1].id
            /\ fires[i].alert_count = 2
            /\ fires[i].source = <<cur[p].source>>

\* a row holding the tags of two sensors
C16_WitnessTwoTags ==
    \E i \in 1..Len(fires) : Len(fires[i].source) = 2

\* ---- C17 ----
\* the columns a merge must leave alone
SameIdentity(a, b) ==
    /\ a.id = b.id /\ a.first_seen = b.first_seen
    /\ a.lat = b.lat /\ a.lon = b.lon
    /\ a.location = b.location /\ a.est_area_m2 = b.est_area_m2
    /\ a.confidence = b.confidence

\* C17: a merge changes last_seen, frp_mw, source and alert_count of the
\* matched row only: its first_seen, latitude, longitude, zone and est_area_m2
\* stay, no other row changes, and no step of a cycle removes or rewrites a
\* row it did not match.
C17_MergeFrame ==
    [][/\ Len(fires') >= Len(fires)
       /\ \A i \in 1..Len(fires) : SameIdentity(fires'[i], fires[i])
       /\ \A p \in Pollers : \A i \in 1..Len(fires) :
            /\ MergeApplied(p, i) =>
                    /\ Len(fires') = Len(fires)
                    /\ \A j \in 1..Len(fires) : j # i => fires'[j] = fires[j]
            /\ WriteStep(p) /\ ~MergeApplied(p, i) => fires'[i] = fires[i]
       /\ (\A p \in Pollers : ~WriteStep(p)) => fires' = fires]_vars

\* a merge was applied while the table held a second row
C17_Witness ==
    \E p \in Pollers :
        /\ pc[p] = "row" /\ w_status[p] = "ok" /\ match[p] # <<>>
        /\ Len(fires) = 2
        /\ \E i \in 1..Len(fires) :
            /\ fires[i].id = match[p][1].id
            /\ fires[i].last_seen = now_time[p]
            /\ fires[i].first_seen < now_time[p]

\* ---- C18 ----
\* the POST of poller p was applied
InsertApplied(p) == WriteStep(p) /\ match[p] = <<>> /\ w_status'[p] = "ok"

\* C18: a lookup that was answered finds no match exactly when no row of its
\* candidates is within the limit; the insert that follows adds exactly one
\* row, with first_seen = last_seen = now, alert_count 1, the sanitized
\* intensity, and est_area_m2 = 2,000,000 (GK2A) or 375,000 (other sensors)
\* times the member count 1 times 0.15.
C18_InsertPostcondition ==
    [][\A p \in Pollers :
          /\ pc[p] = "lookup" /\ r_status'[p] = "200"
                => (match'[p] = <<>>) =
                       (\A i \in 1..Len(fires) : ~InRange(fires[i], cur[p]))
          /\ InsertApplied(p) =>
                /\ Len(fires') = Len(fires) + 1
                /\ \A i \in 1..Len(fires) : fires'[i] = fires[i]
                /\ LET row == fires'[Len(fires')] IN
                    /\ row.first_seen = now_time[p] /\ row.last_seen = now_time[p]
                    /\ row.alert_count = 1
                    /\ row.frp_mw = (IF cur[p].frp = NaN THEN 0 ELSE cur[p].frp)
                    /\ row.lat = cur[p].latitude /\ row.lon = cur[p].longitude
                    /\ row.est_area_m2 =
                           (IF cur[p].source = GK2A_SOURCE THEN 300000 ELSE 56250)]_vars

\* a GK2A reading was inserted next to a row it did not match
C18_Witness ==
    \E p \in Pollers :
        /\ pc[p] = "row" /\ w_status[p] = "ok" /\ match[p] = <<>>
        /\ r_status[p] = "200"
        /\ cur[p].source = GK2A_SOURCE
        /\ Len(fires) = 2
        /\ fires[Len(fires)].est_area_m2 = 300000
        /\ fires[Len(fires)].first_seen = now_time[p]

\* ---- C19 ----
\* the report the cycle is to end with
ClaimedSummary == "inserted/merged/filtered counts"

\* no failure of the oracle or of the store takes poller p out of its loop:
\* the step leaves it at the next row or further down the same row
StaysInLoop(p) ==
    pc[p] \in {"verify", "lookup", "write"}
        => pc'[p] \in {"row", "lookup", "write"} /\ i_row'[p] = i_row[p]

\* C19: whatever the oracle and the store answer, a run of scan_sector that
\* had a frame to process returns having taken its rows, and has then
\* reported a summary of the inserted, merged and filtered counts.
C19_FailSoftSummary ==
    \A p \in Pollers :
        pc[p] = "idle" /\ report[p] \notin {"", SECTOR_CLEAR}
            => report[p] = ClaimedSummary

\* the half of C19 the code keeps: failures are absorbed row by row
C19_FailSoft == [][\A p \in Pollers : StaysInLoop(p)]_vars

\* ---- C20 ----
\* the zone boxes in declaration order, closed on every side
ZoneBoxes ==
    <<[tag |-> "WEST_BENGAL", lat_min |-> 215000, lat_max |-> 273000,
       lon_min |-> 858000, lon_max |-> 899000],
      [tag |-> "PUNJAB_HARYANA", lat_min |-> 284000, lat_max |-> 325000,
       lon_min |-> 738000, lon_max |-> 778000],
      [tag |-> "DELHI_NCR", lat_min |-> 280000, lat_max |-> 289000,
       lon_min |-> 768000, lon_max |-> 775000]>>

Contains(box, lat, lon) ==
    /\ lat # NaN /\ lon # NaN
    /\ box.lat_min <= lat /\ lat <= box.lat_max
    /\ box.lon_min <= lon /\ lon <= box.lon_max

ContainingBoxes(lat, lon) ==
    {k \in 1..Len(ZoneBoxes) : Contains(ZoneBoxes[k], lat, lon)}

\* get_region_tag has returned
RegionTagged == probe.op = "get_region_tag" /\ probe.out # ""

\* C20: get_region_tag returns one tag of {WEST_BENGAL, PUNJAB_HARYANA,
\* DELHI_NCR, INDIA_OTHER} for every coordinate: the tag of the first box in
\* declaration order that contains it (PUNJAB_HARYANA where the PUNJAB_HARYANA
\* and DELHI_NCR boxes overlap), and INDIA_OTHER exactly when no box does.
C20_FirstMatchZone ==
    RegionTagged =>
        LET inside == ContainingBoxes(probe.lat, probe.lon) IN
        /\ probe.out \in {"WEST_BENGAL", "PUNJAB_HARYANA", "DELHI_NCR", "INDIA_OTHER"}
        /\ inside # {} =>
              \E k \in inside :
                  /\ \A j \in inside : k <= j
                  /\ probe.out = ZoneBoxes[k].tag
        /\ {2, 3} \subseteq inside => probe.out = "PUNJAB_HARYANA"
        /\ (probe.out = "INDIA_OTHER") = (inside = {})

\* a point of the overlap of the two boxes was tagged
C20_Witness ==
    /\ RegionTagged
    /\ {2, 3} \subseteq ContainingBoxes(probe.lat, probe.lon)
    /\ probe.out = "PUNJAB_HARYANA"

\* ---- C21 ----
Finite(val) == val \notin {NaN, Inf, Unparsable}
Unclean(f) == ~Finite(f.frp) \/ ~Finite(f.latitude) \/ ~Finite(f.longitude)

\* C21: a reading with a non-finite or unparsable intensity, latitude or
\* longitude does not end the run and is not dropped (the land-use filter
\* aside, it reaches the upsert), and every frp_mw, lat, lon and est_area_m2
\* in the table is a finite number, 0 standing for the unclean value.
C21_Sanitized ==
    /\ \A p \in Pollers :
          /\ pc[p] # "aborted"
          /\ pc[p] = "row" /\ Unclean(cur[p]) /\ land_type[p] \notin {"INDUSTRY", "WATER"}
                => r_status[p] # ""
    /\ \A i \in 1..Len(fires) :
          /\ Finite(fires[i].frp_mw) /\ Finite(fires[i].est_area_m2)
          /\ Finite(fires[i].lat) /\ Finite(fires[i].lon)

\* the part of C21 that safe_float keeps: what is written is finite
C21_FiniteStore ==
    \A i \in 1..Len(fires) :
        /\ Finite(fires[i].frp_mw) /\ Finite(fires[i].est_area_m2)
        /\ Finite(fires[i].lat) /\ Finite(fires[i].lon)

\* ---- C22 ----
\* C22: a reading below the minimum confidence is dropped before zone
\* classification, verification and the upsert: it is never verified, never
\* looked up or written, and never alerts.
C22_LowConfidenceDropped ==
    \A p \in Pollers :
        cur[p].confidence = "l" =>
            /\ pc[p] \notin {"lookup", "write"}
            /\ land_type[p] = "" /\ r_status[p] = "" /\ ~notified[p]

\* ---- C23 ----
\* C23: run_audit sends the bulk delete only after send_email returned
\* success in the same run; with an empty table, without a sender address or
\* after a failed send no delete is sent and the table stays as it was.
C23_WipeAfterEmail ==
    [][/\ audit'.deletes # audit.deletes \/ fires' # fires
            => /\ audit.pc = "wipe" /\ audit.success = "true"
               /\ audit.sender /\ audit.all_data # <<>>
               /\ audit'.deletes = 1
       /\ audit'.pc = "wipe" => audit'.success = "true"]_vars

\* the email went out and the table was wiped
C23_Witness ==
    /\ audit.pc = "done" /\ audit.success = "true" /\ audit.deletes = 1
    /\ audit.all_data # <<>> /\ fires = <<>>

\* ---- C24 ----
\* C24: a reading is handed to the notifier only if its call of
\* save_fire_event_smart created a row for it; when the store refuses the
\* POST, the call does not report a new event and nothing is escalated.
C24_AlertImpliesStored ==
    \A p \in Pollers :
        /\ w_status[p] = "rejected" => ~is_new[p] /\ ai_msg[p] = ""
        /\ notified[p] =>
              /\ w_status[p] = "ok"
              /\ \E i \in 1..Len(fires) :
                    /\ fires[i].lat = cur[p].latitude /\ fires[i].lon = cur[p].longitude
                    /\ fires[i].first_seen = now_time[p]

\* ---- C25 ----
\* the lookup of poller p failed while the table held a row for the same fire
LookupFailedOnKnownFire(p) ==
    /\ r_status[p] \in {"not200", "exception"}
    /\ \E i \in 1..Len(fires) :
          /\ InRange(fires[i], cur[p])
          /\ r_status[p] = "exception" \/ fires[i].first_seen < now_time[p]

\* C25: when the lookup fails (error status or exception) while a row for the
\* same fire is stored within match range, the reading neither adds a second
\* row for the fire nor raises a new alert.
C25_LookupFailureNoDuplicate ==
    \A p \in Pollers :
        LookupFailedOnKnownFire(p) =>
            /\ ~is_new[p] /\ ~notified[p]
            /\ ~\E j \in 1..Len(fires) :
                  /\ now_time[p] > 0 /\ fires[j].first_seen = now_time[p]
                  /\ fires[j].lat = cur[p].latitude /\ fires[j].lon = cur[p].longitude

\* ---- C26 ----
\* the row of the table with this id
RowOf(id) == fires[CHOOSE i \in 1..Len(fires) : fires[i].id = id]
LookupAnswered(p) == pc[p] = "lookup" /\ pc'[p] = "write"
CandidateWithin(p, k) ==
    WithinLimit(RowOf(candidates'[p][k]), cur[p].latitude, cur[p].longitude,
                cur[p].source)

\* C26: a call of save_fire_event_smart matches the first candidate, in the
\* order the lookup returned them, that is strictly within the limit of the
\* reading's sensor, and no candidate if none is; it then sends at most one
\* write: a patch of that row, or an insert when there is no match, never
\* both, and every other row, later candidates included, stays as it was.
C26_OneWriteFirstMatch ==
    [][\A p \in Pollers :
          /\ LookupAnswered(p) =>
                LET n == Len(candidates'[p]) IN
                /\ (match'[p] = <<>>) = (\A k \in 1..n : ~CandidateWithin(p, k))
                /\ match'[p] # <<>> =>
                      \E k \in 1..n :
                          /\ match'[p][1] = RowOf(candidates'[p][k])
                          /\ CandidateWithin(p, k)
                          /\ \A j \in 1..(k - 1) : ~CandidateWithin(p, j)
          /\ WriteStep(p) /\ match[p] # <<>> =>
                /\ Len(fires') = Len(fires)
                /\ \A i \in 1..Len(fires) :
                      fires[i].id # match[p][1].id => fires'[i] = fires[i]
          /\ WriteStep(p) /\ match[p] = <<>> =>
                \/ fires' = fires
                \/ Len(fires') = Len(fires) + 1
                     /\ \A i \in 1..Len(fires) : fires'[i] = fires[i]
          /\ (\A q \in Pollers : ~WriteStep(q)) => fires' = fires]_vars

\* two candidates were within the limit; the first returned was patched, the
\* second left alone
C26_Witness ==
    \E p \in Pollers :
        /\ pc[p] = "row" /\ w_status[p] = "ok" /\ match[p] # <<>>
        /\ Len(candidates[p]) = 2
        /\ match[p][1].id = candidates[p][1]
        /\ \A k \in 1..2 :
              WithinLimit(RowOf(candidates[p][k]), cur[p].latitude, cur[p].longitude,
                          cur[p].source)
        /\ RowOf(candidates[p][1]).alert_count = 2
        /\ RowOf(candidates[p][2]).alert_count = 1

\* ---- C27 ----
\* the stored row is inside the box of half-width `box` (in 1e-4 degree)
\* around the reading f and its planar distance from f, at 111 km per degree,
\* is below `km` (in 1e-4 km), or equal to it when `closed`
Tolerated(row, f, box, km, closed) ==
    LET dlat == row.lat - f.latitude
        dlon == row.lon - f.longitude
    IN  /\ -box <= dlat /\ dlat <= box /\ -box <= dlon /\ dlon <= box
        /\ LET d2 == (dlat * dlat + dlon * dlon) * 111 * 111 IN
           IF closed THEN d2 <= km * km ELSE d2 < km * km
\* the tolerance of the reading's own sensor
ToleratedBySensor(row, f) ==
    IF f.source = GK2A_SOURCE
    THEN Tolerated(row, f, 250, 25000, FALSE)
    ELSE Tolerated(row, f, 10, 1000, TRUE)

\* C27: the tolerance of a match is that of the incoming reading's sensor,
\* whichever sensor created the stored row: a row that a fine-sensor reading
\* is matched with or merged into lies in the +-0.001 degree box and not more
\* than 0.1 km from it, and a row that a GK2A reading is matched with or
\* merged into lies in the +-0.025 degree box and less than 2.5 km from it.
C27_ToleranceOfIncomingSensor ==
    [][\A p \in Pollers :
          /\ LookupAnswered(p) /\ match'[p] # <<>> =>
                ToleratedBySensor(match'[p][1], cur[p])
          /\ \A i \in 1..Len(fires) :
                MergeApplied(p, i) => ToleratedBySensor(fires[i], cur[p])]_vars

\* a fine reading found the row created by GK2A in its candidate box, more
\* than 0.1 km away, and was stored as an event of its own
C27_Witness ==
    \E p \in Pollers :
        /\ pc[p] = "row" /\ w_status[p] = "ok" /\ is_new[p]
        /\ cur[p].source # GK2A_SOURCE
        /\ \E i \in 1..Len(fires) :
              /\ fires[i].id \in {candidates[p][k] : k \in 1..Len(candidates[p])}
              /\ fires[i].source[1] = GK2A_SOURCE
              /\ InBox(fires[i], cur[p].latitude, cur[p].longitude, cur[p].source)
              /\ ~ToleratedBySensor(fires[i], cur[p])
        /\ \E j \in 1..Len(fires) :
              /\ fires[j].lat = cur[p].latitude /\ fires[j].lon = cur[p].longitude
              /\ fires[j].source = <<cur[p].source>>

\* a fine reading was merged into the row created by GK2A next to it
C27_MergedAcrossSensors ==
    \E p \in Pollers :
        /\ pc[p] = "row" /\ w_status[p] = "ok" /\ match[p] # <<>>
        /\ cur[p].source # GK2A_SOURCE
        /\ match[p][1].source[1] = GK2A_SOURCE

\* ---- C28 ----
\* one request of fetch_monthly_data was answered
FetchStep == audit.pc = "fetch" /\ audit' # audit
OnlyRows(all_data) == \A k \in 1..Len(all_data) : all_data[k].kind = "row"

\* C28: the loop of fetch_monthly_data ends whatever the store answers: an
\* answer that is not a non-empty list of rows (an empty page, an exception,
\* an error answer whose body is a JSON object) is the last request, and what
\* the function has collected is rows of the pages read before it, nothing
\* else.
C28_PagedFetchTerminates ==
    [][FetchStep =>
          /\ audit'.last # "list" => audit'.pc # "fetch"
          /\ OnlyRows(audit'.all_data)
          /\ audit'.last # "list" => audit'.all_data = audit.all_data]_vars

\* the store answered every request with an error object: the loop is still
\* running after MaxPages requests and has collected the keys of the answers
C28_StillFetching ==
    /\ audit.pc = "fetch" /\ audit.last = "object"
    /\ audit.offset = MaxPages * batch_size
    /\ Len(audit.all_data) = MaxPages * Len(ErrorBody)
    /\ ~OnlyRows(audit.all_data)

====
